---- MODULE Spec2Model ----
(***************************************************************************)
(* Model of seller.py: synchronisation of stocks and prices between the    *)
(* vendor's spreadsheet and the marketplace API.                           *)
(*                                                                         *)
(* Texts (Python str) are tuples of one-character strings, so that str(),  *)
(* int() and price_conversion() are computed character by character.       *)
(* A spreadsheet cell is a tagged value: S(text) for a text cell, N(n) for *)
(* a numeric cell.                                                         *)
(***************************************************************************)
EXTENDS Integers, Sequences, FiniteSets, TLC

VARIABLES
    entry,          \* the function being run: "main", "get_offer_ids", "create_stocks", "divide"
    pc,             \* position of the control flow
    arg,            \* the arguments the entry function was called with
    ret,            \* result of divide (entry "divide")
    server,         \* the marketplace catalog behind the listing endpoint (entry "main")
    req,            \* payload of the latest catalog listing request
    resp,           \* "result" of the latest catalog listing response
    last_id,        \* get_offer_ids: cursor
    product_list,   \* get_offer_ids: accumulated items
    total,          \* get_offer_ids: total of the latest response
    offer_ids,      \* the offer-identifier list (mutated by create_stocks)
    fetched_ids,    \* the list get_offer_ids returned to main
    file_present,   \* ./ostatki.xls exists in the working directory
    watch_remnants, \* the parsed spreadsheet rows
    stocks,         \* create_stocks: result list
    prices,         \* create_prices: result list
    queue,          \* chunks still to be submitted by the running for loop
    issued,         \* log of write requests sent, with their outcome
    exc,            \* exception raised ("none" when none)
    caught          \* except clause of main that handled it ("none" when none)

vars == <<entry, pc, arg, ret, server, req, resp, last_id, product_list, total,
          offer_ids, fetched_ids, file_present, watch_remnants, stocks,
          prices, queue, issued, exc, caught>>

----------------------------------------------------------------------------
(* Bounds of the model *)

MaxLen == 4         \* divide: longest input list
MaxSize == 3        \* divide: sizes range over -MaxSize .. MaxSize
MaxCat == 2         \* longest small catalog / offer-identifier list
MaxInv == 2         \* longest small spreadsheet
MaxPage == 2        \* catalog API of SpecPager: longest page
MaxTotal == 3       \* catalog API of SpecPager: largest reported total

----------------------------------------------------------------------------
(* Python values and conversions *)

Min(a, b) == IF a < b THEN a ELSE b
Max(a, b) == IF a > b THEN a ELSE b

S(text) == [t |-> "str", v |-> text]
N(n) == [t |-> "int", v |-> n]

Digits == <<"0", "1", "2", "3", "4", "5", "6", "7", "8", "9">>
IsDigit(c) == \E d \in 1..10 : Digits[d] = c
DigitVal(c) == (CHOOSE d \in 1..10 : Digits[d] = c) - 1

RECURSIVE DecimalNat(_)
DecimalNat(n) ==
    IF n < 10 THEN <<Digits[n + 1]>>
    ELSE Append(DecimalNat(n \div 10), Digits[(n % 10) + 1])

\* str(n) for an int
Decimal(n) == IF n < 0 THEN <<"-">> \o DecimalNat(0 - n) ELSE DecimalNat(n)

\* str(x) of a cell value
Str(x) == IF x.t = "int" THEN Decimal(x.v) ELSE x.v

RECURSIVE Strip(_)
Strip(text) ==
    IF text # <<>> /\ Head(text) = " " THEN Strip(Tail(text))
    ELSE IF text # <<>> /\ text[Len(text)] = " " THEN Strip(SubSeq(text, 1, Len(text) - 1))
    ELSE text

RECURSIVE DigitsValue(_)
DigitsValue(text) ==
    IF text = <<>> THEN 0
    ELSE 10 * DigitsValue(SubSeq(text, 1, Len(text) - 1)) + DigitVal(text[Len(text)])

\* int(x): a number is kept; a text is stripped of blanks and read as an
\* optionally signed run of decimal digits, ValueError otherwise (the texts
\* of the model hold no "_" and no digit outside 0-9)
PyInt(x) ==
    IF x.t = "int" THEN [raised |-> FALSE, val |-> x.v]
    ELSE LET s == Strip(x.v)
             signed == s # <<>> /\ Head(s) \in {"-", "+"}
             body == IF signed THEN Tail(s) ELSE s
         IN IF body # <<>> /\ \A k \in 1..Len(body) : IsDigit(body[k])
            THEN [raised |-> FALSE,
                  val |-> IF signed /\ Head(s) = "-" THEN 0 - DigitsValue(body)
                          ELSE DigitsValue(body)]
            ELSE [raised |-> TRUE, val |-> 0]

----------------------------------------------------------------------------
(* divide *)

\* len(range(start, stop, step)) for step # 0
PyRangeLen(start, stop, step) ==
    IF step > 0 /\ start < stop THEN 1 + ((stop - 1 - start) \div step)
    ELSE IF step < 0 /\ start > stop THEN 1 + ((start - 1 - stop) \div (0 - step))
    ELSE 0

\* range(start, stop, step) as the sequence of its values, step # 0
PyRange(start, stop, step) ==
    [k \in 1..PyRangeLen(start, stop, step) |-> start + (k - 1) * step]

\* lst[lo:hi] with Python's clamping of the bounds (0-based, hi excluded)
Slice(lst, lo, hi) ==
    LET norm(x) == IF x < 0 THEN Max(x + Len(lst), 0) ELSE Min(x, Len(lst))
    IN SubSeq(lst, norm(lo) + 1, norm(hi))

\* divide with a range that stops before a last, shorter chunk
divide_whole_chunks(lst, n) ==
    IF n = 0 THEN [raised |-> TRUE, chunks |-> <<>>]
    ELSE LET r == PyRange(0, Len(lst) - n + 1, n)
         IN [raised |-> FALSE,
             chunks |-> [k \in 1..Len(r) |-> Slice(lst, r[k], r[k] + n)]]

\* list(divide(lst, n)): the generator run to its end
divide(lst, n) ==
    IF n = 0 THEN [raised |-> TRUE, chunks |-> <<>>]
    ELSE LET r == PyRange(0, Len(lst), n)
         IN [raised |-> FALSE,
             chunks |-> [k \in 1..Len(r) |-> Slice(lst, r[k], r[k] + n)]]

----------------------------------------------------------------------------
(* create_stocks, create_prices, price_conversion *)

\* x in lst, for a Python list
In(x, lst) == \E k \in 1..Len(lst) : lst[k] = x

\* the list left as it is: the remove of line 201 forgotten
ListKeep(lst, x) == lst

\* lst.remove(x): the list without the first occurrence of x (x is in lst)
ListRemove(lst, x) ==
    LET first == CHOOSE k \in 1..Len(lst) :
                     lst[k] = x /\ \A j \in 1..(k - 1) : lst[j] # x
    IN SubSeq(lst, 1, first - 1) \o SubSeq(lst, first + 1, Len(lst))

\* the test of the if on lines 192 and 234
Matches(watch, ids) == In(Str(watch.Kod), ids)

\* the bucketing without the branch of lines 196-197
StockOfWithoutOne(watch) ==
    IF Str(watch.Kolichestvo) = <<">", "1", "0">> THEN [raised |-> FALSE, val |-> 100]
    ELSE PyInt(watch.Kolichestvo)

\* lines 193-199: the stock of a matched record, or ValueError
StockOf(watch) ==
    LET count == Str(watch.Kolichestvo)
    IN IF count = <<">", "1", "0">> THEN [raised |-> FALSE, val |-> 100]
       ELSE IF count = <<"1">> THEN [raised |-> FALSE, val |-> 0]
       ELSE PyInt(watch.Kolichestvo)

\* price.split(".")[0]
BeforeDot(text) ==
    IF \E k \in 1..Len(text) : text[k] = "."
    THEN SubSeq(text, 1, (CHOOSE k \in 1..Len(text) :
                            text[k] = "." /\ \A j \in 1..(k - 1) : text[j] # ".") - 1)
    ELSE text

\* price_conversion(price); a numeric cell has no split: AttributeError
price_conversion(price) ==
    IF price.t = "int" THEN [raised |-> TRUE, val |-> <<>>]
    ELSE [raised |-> FALSE, val |-> SelectSeq(BeforeDot(price.v), IsDigit)]

\* lines 235-241
PriceOf(watch) ==
    [auto_action_enabled |-> "UNKNOWN",
     currency_code |-> "RUB",
     offer_id |-> Str(watch.Kod),
     old_price |-> "0",
     price |-> price_conversion(watch.Tsena).val]

\* lines 203-204: one zero record per identifier left in offer_ids
ZeroFill(ids) == [k \in 1..Len(ids) |-> [offer_id |-> ids[k], stock |-> 0]]

\* lines 192-201: the body of the loop of create_stocks, on the locals
\* st = [stocks, offer_ids, raised]
StocksBody(st, watch) ==
    IF Matches(watch, st.offer_ids)
    THEN IF StockOf(watch).raised
         THEN [st EXCEPT !.raised = TRUE]
         ELSE [stocks |-> Append(st.stocks, [offer_id |-> Str(watch.Kod),
                                             stock |-> StockOf(watch).val]),
               offer_ids |-> ListRemove(st.offer_ids, Str(watch.Kod)),
               raised |-> FALSE]
    ELSE st

\* line 191: the loop over rows[lo..hi], in order, left at the first
\* exception.  The range is run as its first half followed by its second
\* half, which is the same left-to-right run of the body.
RECURSIVE StocksLoop(_, _, _, _)
StocksLoop(rows, lo, hi, st) ==
    IF lo > hi THEN st
    ELSE IF lo = hi THEN StocksBody(st, rows[lo])
    ELSE LET mid == (lo + hi) \div 2
             half == StocksLoop(rows, lo, mid, st)
         IN IF half.raised THEN half ELSE StocksLoop(rows, mid + 1, hi, half)

\* create_stocks(watch_remnants, offer_ids): the list returned and what is
\* left in the caller's offer_ids, or ValueError
create_stocks(rows, ids) ==
    LET st == StocksLoop(rows, 1, Len(rows), [stocks |-> <<>>, offer_ids |-> ids, raised |-> FALSE])
    IN IF st.raised THEN st
       ELSE [st EXCEPT !.stocks = st.stocks \o ZeroFill(st.offer_ids)]

\* lines 234-242: the body of the loop of create_prices, on the locals
\* st = [prices, raised]
PricesBody(st, watch, ids) ==
    IF Matches(watch, ids)
    THEN IF price_conversion(watch.Tsena).raised
         THEN [st EXCEPT !.raised = TRUE]
         ELSE [prices |-> Append(st.prices, PriceOf(watch)), raised |-> FALSE]
    ELSE st

\* line 233: the loop over rows[lo..hi], run as StocksLoop is
RECURSIVE PricesLoop(_, _, _, _, _)
PricesLoop(rows, lo, hi, st, ids) ==
    IF lo > hi THEN st
    ELSE IF lo = hi THEN PricesBody(st, rows[lo], ids)
    ELSE LET mid == (lo + hi) \div 2
             half == PricesLoop(rows, lo, mid, st, ids)
         IN IF half.raised THEN half ELSE PricesLoop(rows, mid + 1, hi, half, ids)

\* create_prices(watch_remnants, offer_ids): the list returned, or
\* AttributeError
create_prices(rows, ids) ==
    PricesLoop(rows, 1, Len(rows), [prices |-> <<>>, raised |-> FALSE], ids)

----------------------------------------------------------------------------
(* main: batch sizes and the except clauses *)

stock_batch == 100
limit == 1000
\* the batch size of upload_prices (line 306) used in main
price_batch_of_upload == limit
price_batch == 900

\* which except clause of main handles the exception class
ExceptClause(e) ==
    IF e = "ReadTimeout" THEN "ReadTimeout"
    ELSE IF e = "ConnectionError" THEN "ConnectionError"
    ELSE "Exception"

\* an exception leaves the entry function; main catches it and ends
Raise(e) ==
    /\ exc' = e
    /\ IF entry = "main"
       THEN caught' = ExceptClause(e) /\ pc' = "done"
       ELSE caught' = "none" /\ pc' = "raised"

----------------------------------------------------------------------------
(* Input domains *)

SeqsUpTo(set, n) == UNION {[1..k -> set] : k \in 0..n}

Ids == {<<"1">>, <<"2">>}
Cursors == {<<>>, <<"a">>, <<"b">>}
Products == {[offer_id |-> id] : id \in Ids}

NoReq == [last_id |-> <<>>, limit |-> 0]
NoResp == [items |-> <<>>, total |-> -1, last_id |-> <<>>]
NoServer == [items |-> <<>>, page |-> 0]
NoArg == [none |-> TRUE]
NoRet == [raised |-> FALSE, chunks |-> <<>>]

----------------------------------------------------------------------------
(* get_product_list, get_offer_ids *)

\* The largest total the listing endpoint reports.  A product_list longer
\* than it equals no total any more, so the model keeps its first
\* LargestTotal + 1 items: the test of line 68 is unchanged by that.
LargestTotal == IF entry = "main" THEN Len(server.items) ELSE MaxTotal
Extend(list, items) ==
    SubSeq(list \o items, 1, Min(Len(list) + Len(items), LargestTotal + 1))

\* the loop left as soon as the count reaches the total
LoopBreaksAtLeast(t, list) == t <= Len(list)

\* line 68
LoopBreaks(t, list) == t = Len(list)

\* lines 70-73
OfferIdsOf(list) == [k \in 1..Len(list) |-> list[k].offer_id]

\* lines 34-41, 64: the listing request is sent with the cursor
GetProductList ==
    /\ pc = "get_product_list"
    /\ req' = [last_id |-> last_id, limit |-> limit]
    /\ pc' = "await_product_list"
    /\ UNCHANGED <<entry, arg, ret, server, resp, last_id, product_list, total,
                   offer_ids, fetched_ids, file_present, watch_remnants,
                   stocks, prices, queue, issued, exc, caught>>

\* lines 42-44, 65-73: the response r is accumulated and the loop tested
Answer(r) ==
    /\ pc = "await_product_list"
    /\ resp' = r
    /\ product_list' = Extend(product_list, r.items)
    /\ total' = r.total
    /\ last_id' = r.last_id
    /\ IF LoopBreaks(r.total, product_list')
       THEN /\ offer_ids' = OfferIdsOf(product_list')
            /\ IF entry = "main"
               THEN fetched_ids' = offer_ids' /\ pc' = "download"
               ELSE fetched_ids' = fetched_ids /\ pc' = "returned"
       ELSE /\ pc' = "get_product_list"
            /\ UNCHANGED <<offer_ids, fetched_ids>>
    /\ UNCHANGED <<entry, arg, ret, server, req, file_present, watch_remnants,
                   stocks, prices, queue, issued, exc, caught>>

\* an API that answers with any page, any total and any cursor
ApiAnswers ==
    /\ entry = "get_offer_ids"
    /\ \E page \in SeqsUpTo(Products, MaxPage), t \in 0..MaxTotal, c \in Cursors :
           Answer([items |-> page, total |-> t, last_id |-> c])

\* the same API when it never answers with an empty page
ApiAnswersSome ==
    /\ entry = "get_offer_ids"
    /\ \E page \in SeqsUpTo(Products, MaxPage) \ {<<>>}, t \in 0..MaxTotal, c \in Cursors :
           Answer([items |-> page, total |-> t, last_id |-> c])

\* lines 41-42: the request fails or raise_for_status raises
ApiFails ==
    /\ pc = "await_product_list"
    /\ \E e \in {"ReadTimeout", "ConnectionError", "HTTPError"} : Raise(e)
    /\ UNCHANGED <<entry, arg, ret, server, req, resp, last_id, product_list,
                   total, offer_ids, fetched_ids, file_present, watch_remnants,
                   stocks, prices, queue, issued>>

InitPager ==
    /\ entry = "get_offer_ids"
    /\ pc = "get_product_list"
    /\ arg = NoArg /\ ret = NoRet /\ server = NoServer
    /\ req = NoReq /\ resp = NoResp
    /\ last_id = <<>> /\ product_list = <<>> /\ total = -1
    /\ offer_ids = <<>> /\ fetched_ids = <<>>
    /\ file_present = FALSE /\ watch_remnants = <<>>
    /\ stocks = <<>> /\ prices = <<>>
    /\ queue = <<>> /\ issued = <<>>
    /\ exc = "none" /\ caught = "none"

NextPager == GetProductList \/ ApiAnswers \/ ApiFails

SpecPager == InitPager /\ [][NextPager]_vars

NextPagerSome == GetProductList \/ ApiAnswersSome

\* requests.post blocks until the response arrives and the loop runs on:
\* no step of get_offer_ids is postponed forever
FairSpecPager == InitPager /\ [][NextPagerSome]_vars /\ WF_vars(NextPagerSome)

----------------------------------------------------------------------------
(* The marketplace catalog and the vendor's spreadsheet of a run of main *)

Text_gt10 == <<">", "1", "0">>
Text_abc == <<"a", "b", "c">>
Text_price1 == <<"1", "0", "0", ".", "5", "0", " ", "r">>
Text_price2 == <<"2", "0", "0", " ", "r">>

Codes == {N(1), S(<<"2">>), N(9)}

\* rows of the spreadsheet in a run of main
MainRecords ==
    {[Kod |-> c, Kolichestvo |-> q[1], Tsena |-> q[2]] :
        c \in Codes,
        q \in {<<S(Text_gt10), S(Text_price1)>>,
               <<S(Text_abc), S(Text_price2)>>,
               <<S(<<"7">>), N(150)>>}}

\* a catalog and a spreadsheet large enough for several batches of both
\* kinds: every identifier is listed twice and has one row
BigN == price_batch + 1
BigCatalog == [k \in 1..(2 * BigN) |-> Decimal(((k - 1) % BigN) + 1)]
BigInventory ==
    [k \in 1..BigN |-> [Kod |-> N(k), Kolichestvo |-> S(Text_gt10), Tsena |-> S(Text_price1)]]

Servers ==
    {[items |-> c, page |-> p] : c \in SeqsUpTo(Ids, MaxCat), p \in {1, limit}}
        \cup {[items |-> BigCatalog, page |-> limit]}

\* the spreadsheets read_excel may return: any small one, and the large
\* one with the large catalog
Spreadsheets ==
    IF server.items = BigCatalog THEN {BigInventory}
    ELSE SeqsUpTo(MainRecords, MaxInv)

\* the listing endpoint of a catalog: the cursor is the offset of the next
\* item, a page holds at most min(limit asked, page size of the server) items
ServerAnswers ==
    /\ entry = "main"
    /\ pc = "await_product_list"
    /\ LET offset == IF req.last_id = <<>> THEN 0 ELSE PyInt(S(req.last_id)).val
           size == Min(Min(req.limit, server.page), Len(server.items) - offset)
           page == [k \in 1..size |-> [offer_id |-> server.items[offset + k]]]
       IN Answer([items |-> page,
                  total |-> Len(server.items),
                  last_id |-> Decimal(offset + size)])

----------------------------------------------------------------------------
(* download_stock *)

\* lines 156-161: the archive is downloaded and extracted
Download ==
    /\ pc = "download"
    /\ file_present' = TRUE
    /\ pc' = "read_excel"
    /\ UNCHANGED <<entry, arg, ret, server, req, resp, last_id, product_list,
                   total, offer_ids, fetched_ids, watch_remnants, stocks,
                   prices, queue, issued, exc, caught>>

\* lines 158-160: the download fails, or the archive cannot be opened
DownloadFails ==
    /\ pc = "download"
    /\ \E e \in {"ConnectionError", "HTTPError", "BadZipFile"} : Raise(e)
    /\ UNCHANGED <<entry, arg, ret, server, req, resp, last_id, product_list,
                   total, offer_ids, fetched_ids, file_present, watch_remnants,
                   stocks, prices, queue, issued>>

\* lines 163-171: the rows are read, the file is removed, the rows returned;
\* main goes on to create_stocks
ReadExcel ==
    /\ pc = "read_excel"
    /\ \E rows \in Spreadsheets : watch_remnants' = rows
    /\ file_present' = FALSE
    /\ pc' = "create_stocks"
    /\ UNCHANGED <<entry, arg, ret, server, req, resp, last_id, product_list,
                   total, offer_ids, fetched_ids, stocks, prices, queue,
                   issued, exc, caught>>

\* lines 164-169: read_excel raises on a malformed spreadsheet
ReadExcelFails ==
    /\ pc = "read_excel"
    /\ Raise("ValueError")
    /\ UNCHANGED <<entry, arg, ret, server, req, resp, last_id, product_list,
                   total, offer_ids, fetched_ids, file_present, watch_remnants,
                   stocks, prices, queue, issued>>

----------------------------------------------------------------------------
(* create_stocks and the stock requests *)

\* where main goes with the batches q of a for loop over list(divide(...))
LoopOver(q, body, after) == IF q = <<>> THEN after ELSE body

\* lines 190-205, and in main lines 341-342: create_stocks runs on the
\* caller's offer_ids; main divides the list returned into batches
CreateStocks ==
    /\ pc = "create_stocks"
    /\ LET r == create_stocks(watch_remnants, offer_ids)
       IN /\ offer_ids' = r.offer_ids
          /\ IF r.raised
             THEN /\ Raise("ValueError")
                  /\ UNCHANGED <<stocks, queue>>
             ELSE /\ stocks' = r.stocks
                  /\ UNCHANGED <<exc, caught>>
                  /\ IF entry = "main"
                     THEN /\ queue' = divide(r.stocks, stock_batch).chunks
                          /\ pc' = LoopOver(queue', "update_stocks", "create_prices")
                     ELSE /\ pc' = "returned"
                          /\ UNCHANGED queue
    /\ UNCHANGED <<entry, arg, ret, server, req, resp, last_id, product_list,
                   total, fetched_ids, file_present, watch_remnants, prices,
                   issued>>

\* lines 135-138, 342-343: the next batch of stocks is accepted
UpdateStocks ==
    /\ pc = "update_stocks"
    /\ issued' = Append(issued, [kind |-> "stocks", payload |-> Head(queue), ok |-> TRUE])
    /\ queue' = Tail(queue)
    /\ pc' = LoopOver(queue', "update_stocks", "create_prices")
    /\ UNCHANGED <<entry, arg, ret, server, req, resp, last_id, product_list,
                   total, offer_ids, fetched_ids, file_present, watch_remnants,
                   stocks, prices, exc, caught>>

\* lines 136-137: the request fails or raise_for_status raises
UpdateStocksFails ==
    /\ pc = "update_stocks"
    /\ issued' = Append(issued, [kind |-> "stocks", payload |-> Head(queue), ok |-> FALSE])
    /\ \E e \in {"ReadTimeout", "ConnectionError", "HTTPError"} : Raise(e)
    /\ UNCHANGED <<entry, arg, ret, server, req, resp, last_id, product_list,
                   total, offer_ids, fetched_ids, file_present, watch_remnants,
                   stocks, prices, queue>>

----------------------------------------------------------------------------
(* create_prices and the price requests *)

\* lines 232-243, and in main lines 345-346: create_prices runs on the
\* offer_ids of main; main divides the list returned into batches
CreatePrices ==
    /\ pc = "create_prices"
    /\ LET r == create_prices(watch_remnants, offer_ids)
       IN IF r.raised
          THEN /\ Raise("AttributeError")
               /\ UNCHANGED <<prices, queue>>
          ELSE /\ prices' = r.prices
               /\ queue' = divide(r.prices, price_batch).chunks
               /\ pc' = LoopOver(queue', "update_price", "done")
               /\ UNCHANGED <<exc, caught>>
    /\ UNCHANGED <<entry, arg, ret, server, req, resp, last_id, product_list,
                   total, offer_ids, fetched_ids, file_present, watch_remnants,
                   stocks, issued>>

\* lines 99-102, 346-347: the next batch of prices is accepted
UpdatePrice ==
    /\ pc = "update_price"
    /\ issued' = Append(issued, [kind |-> "prices", payload |-> Head(queue), ok |-> TRUE])
    /\ queue' = Tail(queue)
    /\ pc' = LoopOver(queue', "update_price", "done")
    /\ UNCHANGED <<entry, arg, ret, server, req, resp, last_id, product_list,
                   total, offer_ids, fetched_ids, file_present, watch_remnants,
                   stocks, prices, exc, caught>>

\* lines 100-101: the request fails or raise_for_status raises
UpdatePriceFails ==
    /\ pc = "update_price"
    /\ issued' = Append(issued, [kind |-> "prices", payload |-> Head(queue), ok |-> FALSE])
    /\ \E e \in {"ReadTimeout", "ConnectionError", "HTTPError"} : Raise(e)
    /\ UNCHANGED <<entry, arg, ret, server, req, resp, last_id, product_list,
                   total, offer_ids, fetched_ids, file_present, watch_remnants,
                   stocks, prices, queue>>

----------------------------------------------------------------------------
(* main *)

Init ==
    /\ entry = "main"
    /\ pc = "get_product_list"
    /\ server \in Servers
    /\ arg = NoArg /\ ret = NoRet
    /\ req = NoReq /\ resp = NoResp
    /\ last_id = <<>> /\ product_list = <<>> /\ total = -1
    /\ offer_ids = <<>> /\ fetched_ids = <<>>
    /\ file_present = FALSE /\ watch_remnants = <<>>
    /\ stocks = <<>> /\ prices = <<>>
    /\ queue = <<>> /\ issued = <<>>
    /\ exc = "none" /\ caught = "none"

Next ==
    \/ GetProductList
    \/ ServerAnswers
    \/ ApiFails
    \/ Download
    \/ DownloadFails
    \/ ReadExcel
    \/ ReadExcelFails
    \/ CreateStocks
    \/ UpdateStocks
    \/ UpdateStocksFails
    \/ CreatePrices
    \/ UpdatePrice
    \/ UpdatePriceFails

Spec == Init /\ [][Next]_vars

----------------------------------------------------------------------------
(* create_stocks called on its own *)

Text_minus5 == <<"-", "5">>

\* rows given to create_stocks: text quantities, and the numeric cell 1
StockRecords ==
    {[Kod |-> c, Kolichestvo |-> q, Tsena |-> S(Text_price1)] :
        c \in Codes,
        q \in {S(Text_gt10), S(<<"1">>), S(<<"7">>), S(Text_minus5), S(Text_abc), N(1)}}

InitStocks ==
    /\ entry = "create_stocks"
    /\ pc = "create_stocks"
    /\ watch_remnants \in SeqsUpTo(StockRecords, MaxInv)
    /\ offer_ids \in SeqsUpTo(Ids, MaxCat)
    /\ arg = [watch_remnants |-> watch_remnants, offer_ids |-> offer_ids]
    /\ ret = NoRet /\ server = NoServer
    /\ req = NoReq /\ resp = NoResp
    /\ last_id = <<>> /\ product_list = <<>> /\ total = -1
    /\ fetched_ids = <<>>
    /\ file_present = FALSE
    /\ stocks = <<>> /\ prices = <<>>
    /\ queue = <<>> /\ issued = <<>>
    /\ exc = "none" /\ caught = "none"

NextStocks == CreateStocks

SpecStocks == InitStocks /\ [][NextStocks]_vars

----------------------------------------------------------------------------
(* divide called on its own *)

\* lines 285-286, consumed by list(...) as on lines 306, 327, 342, 346
Divide ==
    /\ pc = "divide"
    /\ ret' = divide(arg.lst, arg.n)
    /\ IF ret'.raised
       THEN Raise("ValueError")
       ELSE pc' = "returned" /\ UNCHANGED <<exc, caught>>
    /\ UNCHANGED <<entry, arg, server, req, resp, last_id, product_list, total,
                   offer_ids, fetched_ids, file_present, watch_remnants,
                   stocks, prices, queue, issued>>

InitDivide ==
    /\ entry = "divide"
    /\ pc = "divide"
    /\ arg \in [lst : SeqsUpTo(1..3, MaxLen), n : (0 - MaxSize)..MaxSize]
    /\ ret = NoRet /\ server = NoServer
    /\ req = NoReq /\ resp = NoResp
    /\ last_id = <<>> /\ product_list = <<>> /\ total = -1
    /\ offer_ids = <<>> /\ fetched_ids = <<>>
    /\ file_present = FALSE /\ watch_remnants = <<>>
    /\ stocks = <<>> /\ prices = <<>>
    /\ queue = <<>> /\ issued = <<>>
    /\ exc = "none" /\ caught = "none"

NextDivide == Divide

SpecDivide == InitDivide /\ [][NextDivide]_vars

----------------------------------------------------------------------------
(* Properties *)

Distinct(seq) == \A a, b \in 1..Len(seq) : a # b => seq[a] # seq[b]

RECURSIVE Flatten(_)
Flatten(seqs) == IF seqs = <<>> THEN <<>> ELSE Head(seqs) \o Flatten(Tail(seqs))

\* the batches of size n of a list, by position
Batches(l, n) ==
    [k \in 1..((Len(l) + n - 1) \div n) |-> SubSeq(l, (k - 1) * n + 1, Min(k * n, Len(l)))]

\* the stock the bucketing rule gives to a numeric quantity text
Bucketed(text) ==
    CASE text = Text_gt10 -> 100
      [] text = <<"1">> -> 0
      [] text = <<"7">> -> 7
      [] text = Text_minus5 -> -5

NonNumeric(text) == text = Text_abc

\* rows of the spreadsheet whose stringified code is the identifier id
RowsOf(inv, id) == {j \in 1..Len(inv) : Str(inv[j].Kod) = id}
FirstRow(inv, id) == CHOOSE j \in RowsOf(inv, id) : \A j2 \in RowsOf(inv, id) : j <= j2

\* C1: in a run of main the price list is built against the identifiers as
\* fetched from the catalog: one entry per spreadsheet row whose stringified
\* code is a catalog identifier, and no other entry.
C1_PricesAgainstFetchedIds ==
    (entry = "main" /\ (pc = "update_price" \/ (pc = "done" /\ exc = "none")))
    => LET rows == {j \in 1..Len(watch_remnants) :
                        In(Str(watch_remnants[j].Kod), fetched_ids)}
       IN /\ Len(prices) = Cardinality(rows)
          /\ \A j \in rows :
                 \E k \in 1..Len(prices) : prices[k].offer_id = Str(watch_remnants[j].Kod)
          /\ \A k \in 1..Len(prices) :
                 \E j \in rows : prices[k].offer_id = Str(watch_remnants[j].Kod)

C2_Body ==
    LET cat == arg.offer_ids
        inv == arg.watch_remnants
    IN /\ \A k \in 1..Len(stocks) : In(stocks[k].offer_id, cat)
       /\ \A c \in 1..Len(cat) :
              /\ Cardinality({k \in 1..Len(stocks) : stocks[k].offer_id = cat[c]}) = 1
              /\ \A k \in 1..Len(stocks) :
                     stocks[k].offer_id = cat[c]
                     => stocks[k].stock =
                            IF RowsOf(inv, cat[c]) = {} THEN 0
                            ELSE Bucketed(Str(inv[FirstRow(inv, cat[c])].Kolichestvo))

\* C2 as stated: for every offer-identifier list and every spreadsheet the
\* list create_stocks returns holds exactly one entry per catalog identifier,
\* with the bucketed stock of its row or 0 when it has no row, and no entry
\* for a code outside the catalog.
C2_OneEntryPerOffer ==
    (entry = "create_stocks" /\ pc = "returned") => C2_Body

\* C2 amended: the same for every offer-identifier list whose identifiers
\* are pairwise distinct.
C2_OneEntryPerDistinctOffer ==
    (entry = "create_stocks" /\ pc = "returned" /\ Distinct(arg.offer_ids)) => C2_Body

C2_Witness ==
    /\ entry = "create_stocks" /\ pc = "returned"
    /\ Distinct(arg.offer_ids) /\ Len(arg.offer_ids) = 2
    /\ Len(arg.watch_remnants) = 2
    /\ Str(arg.watch_remnants[1].Kod) = Str(arg.watch_remnants[2].Kod)
    /\ In(Str(arg.watch_remnants[1].Kod), arg.offer_ids)
    /\ Len(stocks) = 2

\* C3: the pager sends each listing request with the cursor of the previous
\* response (empty at first); after a response it sends a further request
\* if and only if the accumulated count differs from that response's total,
\* and otherwise returns the identifiers of all accumulated items in order.
C3_PagerStopsAtTotal ==
    [][/\ (pc = "get_product_list" /\ pc' = "await_product_list")
          => /\ req'.last_id = (IF resp = NoResp THEN <<>> ELSE resp.last_id)
             /\ req'.limit = 1000
       /\ (pc = "await_product_list" /\ pc' # "raised")
          => /\ IF Len(product_list) + Len(resp'.items) <= MaxTotal + 1
                THEN product_list' = product_list \o resp'.items
                ELSE Len(product_list') > MaxTotal
             /\ pc' \in {"get_product_list", "returned"}
             /\ (pc' = "get_product_list") <=> (Len(product_list') # resp'.total)
             /\ pc' = "returned"
                => offer_ids' = [k \in 1..Len(product_list') |-> product_list'[k].offer_id]
      ]_vars

C3_Witness ==
    /\ entry = "get_offer_ids" /\ pc = "returned"
    /\ Len(offer_ids) = 3
    /\ Len(resp.items) = 2
    /\ req.last_id # <<>>

\* C4: for size >= 1 divide yields non-empty chunks whose concatenation is
\* the input, each of length size except possibly the last; an empty input
\* yields no chunk and size 1 yields one singleton per item.
C4_Chunking ==
    (entry = "divide" /\ pc \in {"returned", "raised"} /\ arg.n >= 1)
    => /\ pc = "returned"
       /\ Flatten(ret.chunks) = arg.lst
       /\ \A k \in 1..Len(ret.chunks) :
              /\ Len(ret.chunks[k]) \in 1..arg.n
              /\ k < Len(ret.chunks) => Len(ret.chunks[k]) = arg.n
       /\ arg.lst = <<>> => ret.chunks = <<>>
       /\ arg.n = 1 => ret.chunks = [k \in 1..Len(arg.lst) |-> <<arg.lst[k]>>]

C4_Witness ==
    /\ entry = "divide" /\ pc = "returned"
    /\ arg.n = 2 /\ Len(arg.lst) = 3
    /\ Len(ret.chunks) = 2

\* C5: a matched row with quantity ">10" gives stock 100, "1" gives 0, any
\* other numeric text its integer value; a non-numeric text makes
\* create_stocks fail with ValueError instead of returning a list.
C5_StockBucketing ==
    entry = "create_stocks"
    => LET cat == arg.offer_ids
           inv == arg.watch_remnants
           count(j) == Str(inv[j].Kolichestvo)
           first(j) == /\ In(Str(inv[j].Kod), cat)
                       /\ j = FirstRow(inv, Str(inv[j].Kod))
       IN /\ pc = "returned"
             => \A j \in 1..Len(inv) :
                    first(j)
                    => /\ ~NonNumeric(count(j))
                       /\ \E k \in 1..Len(stocks) :
                              stocks[k] = [offer_id |-> Str(inv[j].Kod),
                                           stock |-> Bucketed(count(j))]
          /\ pc = "raised"
             => /\ exc = "ValueError"
                /\ \E j \in 1..Len(inv) :
                       In(Str(inv[j].Kod), cat) /\ NonNumeric(count(j))
          /\ (\E j \in 1..Len(inv) : first(j) /\ NonNumeric(count(j)))
             => pc # "returned"

C5_Witness ==
    /\ entry = "create_stocks" /\ pc = "returned"
    /\ Len(arg.watch_remnants) = 2
    /\ Len(stocks) = 2
    /\ stocks[1].stock = 100
    /\ Str(arg.watch_remnants[2].Kolichestvo) = <<"1">>
    /\ stocks[2] = [offer_id |-> Str(arg.watch_remnants[2].Kod), stock |-> 0]
    /\ Len(offer_ids) = 0

\* C6: every entry of the list create_stocks builds has a stock >= 0.
C6_StockNonNegative ==
    entry = "create_stocks" => \A k \in 1..Len(stocks) : stocks[k].stock >= 0

\* C7: divide with size <= 0 fails with an error on any input; it never
\* returns a sequence of chunks.
C7_NonPositiveSizeFails ==
    (entry = "divide" /\ pc \in {"returned", "raised"} /\ arg.n <= 0) => pc = "raised"

\* C8: once download_stock has ended, by returning or by raising, the
\* extracted spreadsheet is no longer in the working directory.
C8_FileRemovedAfterFetch ==
    (entry = "main" /\ pc \notin {"get_product_list", "await_product_list",
                                  "download", "read_excel"})
    => ~file_present

\* C9: the write requests of a run are the batches of 100 of the stock list
\* in order, then the batches of 900 of the price list in order, each sent
\* once; a failed request is the last one sent, every request before it was
\* accepted, and its error is handled by an except clause of main, which ends.
C9_WriteSequence ==
    entry = "main"
    => LET sb == Batches(stocks, 100)
           pb == Batches(prices, 900)
           n == Len(issued)
       IN /\ pc # "raised"
          /\ n <= Len(sb) + Len(pb)
          /\ \A k \in 1..n :
                 /\ issued[k].kind = (IF k <= Len(sb) THEN "stocks" ELSE "prices")
                 /\ issued[k].payload = (IF k <= Len(sb) THEN sb[k] ELSE pb[k - Len(sb)])
                 /\ k < n => issued[k].ok
          /\ (n > 0 /\ ~issued[n].ok)
             => /\ pc = "done"
                /\ exc \in {"ReadTimeout", "ConnectionError", "HTTPError"}
                /\ caught \in {"ReadTimeout", "ConnectionError", "Exception"}
          /\ (pc = "done" /\ exc = "none") => n = Len(sb) + Len(pb)
          /\ pc = "update_price" => n >= Len(sb)

C9_Witness ==
    /\ entry = "main" /\ pc = "done"
    /\ Len(issued) > 20
    /\ issued[Len(issued)].kind = "prices"
    /\ ~issued[Len(issued)].ok
    /\ Len(issued[Len(issued)].payload) = 1

\* C10: against an API that always answers with a non-empty page and a
\* total, get_offer_ids eventually returns.
C10_PagerTerminates == <>(pc = "returned")

====
